---- MODULE Spec2Model ----
(***************************************************************************)
(* State-synchronisation layer of the SPY DayTrader dashboard:             *)
(*   - useWebSocket  (frontend/src/hooks/useWebSocket.ts)                  *)
(*   - AlertsFeed    (components/AlertsFeed.tsx)                           *)
(*   - the poll loops (useTrades, useAccount, useLeaderboard, BotControls, *)
(*     PositionCard)                                                       *)
(*   - StrategyLeaderboard (rankings, long-horizon run, fast poll) with    *)
(*     the server's ranking blender, and BotControls' mode switch          *)
(* Every action is one task of the browser's event loop: an event handler, *)
(* a timer callback, an effect run or an effect cleanup.                   *)
(***************************************************************************)
EXTENDS Integers, Sequences, FiniteSets, TLC

VARIABLES
    \* ---- useWebSocket ----
    readyState,        \* readyState of the socket in wsRef.current
    connected,         \* useState(false)
    lastMessage,       \* useState<WSMessage | null>(null)
    reconnectAttempt,  \* reconnectAttempt.current
    reconnectTimer,    \* TRUE while the timeout in reconnectTimer.current is pending
    reconnectDelay,    \* delay (ms) of the most recently scheduled reconnect timeout
    ping,              \* TRUE while the heartbeat interval of the socket is live
    pingSent,          \* a 'ping' was sent on the current socket
    disposed,          \* the effect cleanup has run
    thrown,            \* an exception escaped a handler or an effect
    \* ---- history of the channel (observations, not program state) ----
    closesSinceOpen,   \* close events since the last open event (or since mount)
    priorFailures,     \* value of reconnectAttempt just before the last open event
    disposedIn,        \* readyState of the socket at the moment of disposal
    frameLog,          \* "malformed" once a non-JSON frame arrived, "recovered" once
                       \* a later frame was stored in lastMessage
    pongLast,          \* the most recent frame handled by onmessage was a pong
    lastEnd,           \* how the last connection ended: "close", or "error" when
                       \* an error event came first ("none" before the first end)
    \* ---- AlertsFeed ----
    now,               \* Date.now()
    effectPending,     \* lastMessage changed since the effect last ran
    processedRef,      \* processedRef.current
    alerts,            \* useState<Alert[]>([])
    inserted,          \* history: every alert ever prepended, newest first
    lastOutcome,       \* history: what the last effect run did
    ingested,          \* history: the alerts made from the value lastMessage holds
    \* ---- poll loops ----
    snap,              \* the useState cells the loops write: each holds the number of
                       \* the response it was taken from, 0 for its initial value
    tradesError,       \* useTrades: useState<string | null>(null)
    inflight,          \* per loop, number of refresh() calls awaiting their response
    \* ---- leaderboard: rankings ----
    summaries,         \* server: per strategy, its short- and long-horizon summaries
    srvRankings,       \* server: the rankings GET /leaderboard/rankings answers with
    rankings,          \* useLeaderboard: useState<StrategyRanking[]>([])
    \* ---- leaderboard: long-horizon run and timers ----
    srvLt,             \* server: lt_progress.status
    ltStatus,          \* useLeaderboard: ltProgress.status
    ltRunning,         \* StrategyLeaderboard: useState(false)
    rankTimers,        \* periods (ms) of the live intervals that call refresh()
    trigReq,           \* triggerLongTermBacktest() awaits its response
    stRefresh,         \* setTimeout(refresh, 2000) of handleStTrigger is pending
    ltRefresh,         \* setTimeout(refresh, 2000) of handleLtTrigger is pending
    flagTimeout,       \* setTimeout(() => setLtRunning(false), 3000) is pending
    lastCancel,        \* history: what last cleared the 5 s interval ("fetch", "flag")
    \* ---- BotControls: trading mode ----
    srvMode,           \* server: the trading mode
    statusMode,        \* status?.mode of the status cell ("none" while status is null)
    modeReq,           \* the setMode() request awaiting its response
    lastTyped,         \* history: what window.prompt last returned
    \* ---- BotControls: start and stop ----
    botReq,            \* startBot() or stopBot() awaits its response (`loading`)
    \* ---- lifecycle of the components that own the loops ----
    mounted,           \* per loop, its component is mounted (cleanup has not run)
    \* ---- history of the fetches, kept where their order is followed ----
    startSeq,          \* per loop, the number of refresh() calls followed so far
                       \* (call 1 is the one of the mount effect)
    reqs,              \* the followed fetches in flight: <<loop, number of the call>>
    okMax              \* per loop, the highest number of a fetch that succeeded

wsVars    == <<readyState, connected, lastMessage, reconnectAttempt, reconnectTimer,
               reconnectDelay, ping, pingSent, disposed, thrown,
               closesSinceOpen, priorFailures, disposedIn, frameLog, pongLast, lastEnd>>
feedVars  == <<now, effectPending, processedRef, alerts, inserted, lastOutcome,
               ingested>>
blendVars == <<summaries, srvRankings, rankings>>
lbVars    == <<srvLt, ltStatus, ltRunning, rankTimers, trigReq, stRefresh, ltRefresh,
               flagTimeout, lastCancel>>
ctlVars   == <<srvMode, statusMode, modeReq, lastTyped>>
startVars == <<botReq>>
orderVars == <<startSeq, reqs, okMax>>
lifeVars  == <<mounted, orderVars>>
pollVars  == <<snap, tradesError, inflight, blendVars, lbVars, ctlVars, startVars,
               lifeVars>>
vars      == <<wsVars, feedVars, pollVars>>

----------------------------------------------------------------------------
\* Bounds of the model.
MaxAttempt  == 7    \* the server refuses at most this many connections in a row
MaxNow      == 53   \* the clock stops at this instant
FreePhase   == 1    \* instants in which payloads and idle clock ticks are unrestricted
MaxVersion  == 2    \* distinct server responses per resource
MaxInFlight == 2    \* refresh() calls in flight, over all loops

\* Program constants.
BASE_DELAY  == 3000
CAP_DELAY   == 60000
MAX_ALERTS  == 50
STATUS_POLL_MS   == 10000   \* BotControls: setInterval(refresh, 10000)
POSITION_POLL_MS == 3000    \* PositionCard: setInterval(refresh, 3000)
ACCOUNT_POLL_MS  == 5000    \* useAccount: setInterval(refresh, 5000)
TRADES_POLL_MS   == 30000   \* useTrades: setInterval(refresh, 30000)
RANKINGS_POLL_MS == 30000   \* useLeaderboard: setInterval(() => refresh(), 30000)
FAST_POLL_MS     == 5000    \* StrategyLeaderboard: setInterval(refresh, 5_000)
ST_WEIGHT   == 55           \* percent of the short-term score in the blended score
LT_WEIGHT   == 45           \* percent of the long-term score in the blended score

Min(a, b) == IF a <= b THEN a ELSE b

----------------------------------------------------------------------------
\* Values of the JavaScript side.

Undefined == "undefined"

NoData == [present |-> FALSE, action |-> Undefined, pnl |-> {}]
Data(a, p) == [present |-> TRUE, action |-> a, pnl |-> p]

\* JSON.parse results: kind is "object" | "number" | "null" | "SyntaxError";
\* type is the object's type property (Undefined when it has none).
Value(k, t, d) == [kind |-> k, type |-> t, data |-> d]
NullState   == Value("null", Undefined, NoData)      \* useState's initial null
SyntaxError == Value("SyntaxError", Undefined, NoData)

\* The frames the server (or anything on the wire) may send, as text.
TradeFrames ==
  { "{\"type\":\"trade_update\",\"data\":{}}",
    "{\"type\":\"trade_update\",\"data\":{\"action\":\"open\"}}",
    "{\"type\":\"trade_update\",\"data\":{\"action\":\"close\",\"pnl\":-5}}",
    "{\"type\":\"trade_update\",\"data\":{\"action\":\"close\",\"pnl\":0}}",
    "{\"type\":\"trade_update\",\"data\":{\"action\":\"CLOSE\",\"pnl\":7}}",
    "{\"type\":\"trade_update\",\"data\":{\"action\":\"close\"}}" }

DefaultTradeFrame == "{\"type\":\"trade_update\",\"data\":{}}"

OtherFrames ==
  { "not json",
    "{\"type\":",
    "null",
    "42",
    "{}",
    "{\"type\":\"pong\"}",
    "{\"type\":\"price_update\",\"data\":{\"price\":5}}",
    "{\"type\":\"status_update\",\"data\":{}}",
    "{\"type\":\"trade_update\"}" }

Frames == TradeFrames \cup OtherFrames

\* JSON.parse(event.data) on the frames above.
JSONParse(f) ==
  CASE f = "not json"  -> SyntaxError
    [] f = "{\"type\":" -> SyntaxError
    [] f = "null"       -> Value("null", Undefined, NoData)
    [] f = "42"         -> Value("number", Undefined, NoData)
    [] f = "{}"         -> Value("object", Undefined, NoData)
    [] f = "{\"type\":\"pong\"}" -> Value("object", "pong", NoData)
    [] f = "{\"type\":\"price_update\",\"data\":{\"price\":5}}"
                        -> Value("object", "price_update", Data(Undefined, {}))
    [] f = "{\"type\":\"status_update\",\"data\":{}}"
                        -> Value("object", "status_update", Data(Undefined, {}))
    [] f = "{\"type\":\"trade_update\"}"
                        -> Value("object", "trade_update", NoData)
    [] f = "{\"type\":\"trade_update\",\"data\":{}}"
                        -> Value("object", "trade_update", Data(Undefined, {}))
    [] f = "{\"type\":\"trade_update\",\"data\":{\"action\":\"open\"}}"
                        -> Value("object", "trade_update", Data("open", {}))
    [] f = "{\"type\":\"trade_update\",\"data\":{\"action\":\"close\",\"pnl\":-5}}"
                        -> Value("object", "trade_update", Data("close", {-5}))
    [] f = "{\"type\":\"trade_update\",\"data\":{\"action\":\"close\",\"pnl\":0}}"
                        -> Value("object", "trade_update", Data("close", {0}))
    [] f = "{\"type\":\"trade_update\",\"data\":{\"action\":\"CLOSE\",\"pnl\":7}}"
                        -> Value("object", "trade_update", Data("CLOSE", {7}))
    [] f = "{\"type\":\"trade_update\",\"data\":{\"action\":\"close\"}}"
                        -> Value("object", "trade_update", Data("close", {}))

----------------------------------------------------------------------------
\* useWebSocket

\* Backoff without the cap.
BackoffUncapped(n) == BASE_DELAY * 2^n

\* Math.min(3000 * Math.pow(2, reconnectAttempt.current), 60000)
Backoff(n) == Min(BASE_DELAY * 2^n, CAP_DELAY)

\* WebSocket.close(): a CONNECTING or OPEN socket starts closing (its close
\* event is fired later, in a task of its own); otherwise nothing happens.
WsClose(rs) == IF rs \in {"CONNECTING", "OPEN"} THEN "CLOSING" ELSE rs

\* connect(): new WebSocket(...); wsRef.current = ws
ConnectBody ==
  /\ readyState' = "CONNECTING"
  /\ pingSent' = FALSE

\* useEffect(() => { connect(); ... }) has run: the state after construction.
Init ==
  /\ readyState = "CONNECTING"
  /\ connected = FALSE
  /\ lastMessage = NullState
  /\ reconnectAttempt = 0
  /\ reconnectTimer = FALSE
  /\ reconnectDelay = 0
  /\ ping = FALSE
  /\ pingSent = FALSE
  /\ disposed = FALSE
  /\ thrown = FALSE
  /\ closesSinceOpen = 0
  /\ priorFailures = 0
  /\ disposedIn = "mounted"
  /\ frameLog = "none"
  /\ pongLast = FALSE
  /\ lastEnd = "none"
  /\ now = 1
  /\ effectPending = FALSE
  /\ processedRef = 0
  /\ alerts = <<>>
  /\ inserted = <<>>
  /\ lastOutcome = "none"
  /\ ingested = 0
  /\ snap = [status |-> 0, position |-> 0, account |-> 0, risk |-> 0, trades |-> 0,
             total |-> 0, rankings |-> 0, progress |-> 0, ltProgress |-> 0]
  /\ tradesError = "null"
  /\ inflight = [l \in {"status", "position", "account", "trades", "rankings"} |-> 1]
  /\ summaries = [n \in {"orb", "vwap_reversion"} |->
                    [ranked |-> FALSE, st |-> 0, lt |-> [kind |-> "absent", score |-> 0]]]
  /\ srvRankings = <<>>
  /\ rankings = <<>>
  /\ srvLt = "idle"
  /\ ltStatus = "idle"
  /\ ltRunning = FALSE
  /\ rankTimers = {RANKINGS_POLL_MS}
  /\ trigReq = FALSE
  /\ stRefresh = FALSE
  /\ ltRefresh = FALSE
  /\ flagTimeout = FALSE
  /\ lastCancel = "none"
  /\ srvMode = "paper"
  /\ statusMode = "none"
  /\ modeReq = [mode |-> "none", confirmation |-> "undefined"]
  /\ lastTyped = "none"
  /\ botReq = FALSE
  /\ mounted = [l \in {"status", "position", "account", "trades", "rankings"} |-> TRUE]
  /\ startSeq = [l \in {"status", "position", "account", "trades", "rankings"} |-> 1]
  /\ reqs = {<<l, 1>> : l \in {"status", "position", "account", "trades", "rankings"}}
  /\ okMax = [l \in {"status", "position", "account", "trades", "rankings"} |-> 0]

\* ws.onopen without "reconnectAttempt.current = 0".
OnOpenNoReset ==
  /\ readyState = "CONNECTING"
  /\ readyState' = "OPEN"
  /\ connected' = TRUE
  /\ reconnectAttempt' = reconnectAttempt
  /\ ping' = TRUE
  /\ closesSinceOpen' = 0
  /\ priorFailures' = reconnectAttempt
  /\ UNCHANGED <<lastMessage, reconnectTimer, reconnectDelay, pingSent, disposed,
                 thrown, disposedIn, frameLog, pongLast, lastEnd>>
  /\ UNCHANGED <<feedVars, pollVars>>

\* ws.onopen
OnOpen ==
  /\ readyState = "CONNECTING"
  /\ readyState' = "OPEN"
  /\ connected' = TRUE
  /\ reconnectAttempt' = 0
  /\ ping' = TRUE
  /\ closesSinceOpen' = 0
  /\ priorFailures' = reconnectAttempt
  /\ UNCHANGED <<lastMessage, reconnectTimer, reconnectDelay, pingSent, disposed,
                 thrown, disposedIn, frameLog, pongLast, lastEnd>>
  /\ UNCHANGED <<feedVars, pollVars>>

\* The heartbeat without its test of readyState: every tick sends.
HeartbeatTickUnguarded ==
  /\ ping
  /\ pingSent' = TRUE
  /\ UNCHANGED <<readyState, connected, lastMessage, reconnectAttempt, reconnectTimer,
                 reconnectDelay, ping, disposed, thrown, closesSinceOpen,
                 priorFailures, disposedIn, frameLog, pongLast, lastEnd>>
  /\ UNCHANGED <<feedVars, pollVars>>

\* The heartbeat: setInterval(() => { if (ws.readyState === OPEN) ws.send('ping') }, 30000)
HeartbeatTick ==
  /\ ping
  /\ pingSent' = (pingSent \/ readyState = "OPEN")
  /\ UNCHANGED <<readyState, connected, lastMessage, reconnectAttempt, reconnectTimer,
                 reconnectDelay, ping, disposed, thrown, closesSinceOpen,
                 priorFailures, disposedIn, frameLog, pongLast, lastEnd>>
  /\ UNCHANGED <<feedVars, pollVars>>

\* ws.onmessage without the try/catch: the exception of JSON.parse escapes.
OnMessageNoCatch(f) ==
  /\ readyState = "OPEN"
  /\ LET msg == JSONParse(f) IN
       IF msg.kind \in {"SyntaxError", "null"} THEN
         /\ UNCHANGED <<lastMessage, effectPending, ingested>>
         /\ frameLog' = IF msg.kind = "SyntaxError" THEN "malformed" ELSE frameLog
         /\ thrown' = TRUE
       ELSE IF msg.type # "pong" THEN
         /\ lastMessage' = msg
         /\ effectPending' = TRUE
         /\ ingested' = 0
         /\ frameLog' = IF frameLog = "malformed" THEN "recovered" ELSE frameLog
         /\ thrown' = thrown
       ELSE
         UNCHANGED <<lastMessage, effectPending, frameLog, thrown, ingested>>
  /\ pongLast' = (JSONParse(f).type = "pong")
  /\ lastEnd' = lastEnd
  /\ UNCHANGED <<readyState, connected, reconnectAttempt, reconnectTimer,
                 reconnectDelay, ping, pingSent, disposed, closesSinceOpen,
                 priorFailures, disposedIn>>
  /\ UNCHANGED <<now, processedRef, alerts, inserted, lastOutcome>>
  /\ UNCHANGED pollVars

\* ws.onmessage without the test of msg.type: a pong is stored like any frame.
OnMessageForwardsPong(f) ==
  /\ readyState = "OPEN"
  /\ LET msg == JSONParse(f) IN
       IF msg.kind \in {"SyntaxError", "null"} THEN
         /\ UNCHANGED <<lastMessage, effectPending, ingested>>
         /\ frameLog' = IF msg.kind = "SyntaxError" THEN "malformed" ELSE frameLog
       ELSE
         /\ lastMessage' = msg
         /\ effectPending' = TRUE
         /\ ingested' = 0
         /\ frameLog' = IF frameLog = "malformed" THEN "recovered" ELSE frameLog
  /\ thrown' = thrown
  /\ pongLast' = (JSONParse(f).type = "pong")
  /\ lastEnd' = lastEnd
  /\ UNCHANGED <<readyState, connected, reconnectAttempt, reconnectTimer,
                 reconnectDelay, ping, pingSent, disposed, closesSinceOpen,
                 priorFailures, disposedIn>>
  /\ UNCHANGED <<now, processedRef, alerts, inserted, lastOutcome>>
  /\ UNCHANGED pollVars

\* ws.onmessage: a message event is fired only on an OPEN socket.
\*   try { const msg = JSON.parse(event.data);
\*         if (msg.type !== 'pong') setLastMessage(msg); } catch { /* ignore */ }
\* JSON.parse throws on text that is not JSON and msg.type throws on null;
\* both are caught.
OnMessage(f) ==
  /\ readyState = "OPEN"
  /\ LET msg == JSONParse(f) IN
       IF msg.kind \in {"SyntaxError", "null"} THEN
         /\ UNCHANGED <<lastMessage, effectPending, ingested>>
         /\ frameLog' = IF msg.kind = "SyntaxError" THEN "malformed" ELSE frameLog
       ELSE IF msg.type # "pong" THEN
         /\ lastMessage' = msg
         /\ effectPending' = TRUE
         /\ ingested' = 0
         /\ frameLog' = IF frameLog = "malformed" THEN "recovered" ELSE frameLog
       ELSE
         UNCHANGED <<lastMessage, effectPending, frameLog, ingested>>
  /\ thrown' = thrown
  /\ pongLast' = (JSONParse(f).type = "pong")
  /\ lastEnd' = lastEnd
  /\ UNCHANGED <<readyState, connected, reconnectAttempt, reconnectTimer,
                 reconnectDelay, ping, pingSent, disposed, closesSinceOpen,
                 priorFailures, disposedIn>>
  /\ UNCHANGED <<now, processedRef, alerts, inserted, lastOutcome>>
  /\ UNCHANGED pollVars

\* The close handler without "reconnectTimer.current = setTimeout(connect, delay)".
CloseHandlersNoRetry ==
  /\ connected' = FALSE
  /\ reconnectDelay' = Backoff(reconnectAttempt)
  /\ reconnectAttempt' = reconnectAttempt + 1
  /\ reconnectTimer' = reconnectTimer
  /\ ping' = FALSE
  /\ closesSinceOpen' = closesSinceOpen + 1

\* ws.onclose without "setConnected(false)".
CloseHandlersKeepConnected ==
  /\ connected' = connected
  /\ reconnectDelay' = Backoff(reconnectAttempt)
  /\ reconnectAttempt' = reconnectAttempt + 1
  /\ reconnectTimer' = TRUE
  /\ ping' = FALSE
  /\ closesSinceOpen' = closesSinceOpen + 1

\* ws.onclose, followed by the listener that onopen added (clearInterval(ping)).
CloseHandlers ==
  /\ connected' = FALSE
  /\ reconnectDelay' = Backoff(reconnectAttempt)
  /\ reconnectAttempt' = reconnectAttempt + 1
  /\ reconnectTimer' = TRUE
  /\ ping' = FALSE
  /\ closesSinceOpen' = closesSinceOpen + 1

\* The close event of a connection that ended without an error (a refused or
\* dropped connection is OnError). A connection that was never opened is
\* refused at most MaxAttempt times in a row.
OnClose ==
  /\ \/ readyState \in {"OPEN", "CLOSING"}
     \/ readyState = "CONNECTING" /\ reconnectAttempt < MaxAttempt
  /\ readyState' = "CLOSED"
  /\ CloseHandlers
  /\ lastEnd' = "close"
  /\ UNCHANGED <<lastMessage, pingSent, disposed, thrown, priorFailures, disposedIn,
                 frameLog, pongLast>>
  /\ UNCHANGED <<feedVars, pollVars>>

\* An error that is only noted: the socket and the hook are left as they were.
OnErrorLeftHalfOpen ==
  /\ \/ readyState = "OPEN"
     \/ readyState = "CONNECTING" /\ reconnectAttempt < MaxAttempt
  /\ lastEnd' = "error"
  /\ UNCHANGED <<readyState, connected, reconnectDelay, reconnectAttempt,
                 reconnectTimer, ping, closesSinceOpen>>
  /\ UNCHANGED <<lastMessage, pingSent, disposed, thrown, priorFailures, disposedIn,
                 frameLog, pongLast>>
  /\ UNCHANGED <<feedVars, pollVars>>

\* A failed connection: the browser sets readyState to CLOSED, fires error
\* (ws.onerror = () => ws.close(), which does nothing on a CLOSED socket) and
\* then close, all in one task.
OnError ==
  /\ \/ readyState = "OPEN"
     \/ readyState = "CONNECTING" /\ reconnectAttempt < MaxAttempt
  /\ readyState' = WsClose("CLOSED")
  /\ CloseHandlers
  /\ lastEnd' = "error"
  /\ UNCHANGED <<lastMessage, pingSent, disposed, thrown, priorFailures, disposedIn,
                 frameLog, pongLast>>
  /\ UNCHANGED <<feedVars, pollVars>>

\* The reconnect timeout with a retry limit: after the sixth failed attempt in
\* a row the callback gives up.
ReconnectGivesUp ==
  /\ reconnectTimer
  /\ reconnectAttempt <= 5
  /\ reconnectTimer' = FALSE
  /\ ConnectBody
  /\ UNCHANGED <<connected, lastMessage, reconnectAttempt, reconnectDelay, ping,
                 disposed, thrown, closesSinceOpen, priorFailures, disposedIn,
                 frameLog, pongLast, lastEnd>>
  /\ UNCHANGED <<feedVars, pollVars>>

\* The reconnect timer armed with setInterval instead of setTimeout: it fires,
\* calls connect() and stays pending.
ReconnectRepeats ==
  /\ reconnectTimer
  /\ reconnectTimer' = TRUE
  /\ ConnectBody
  /\ UNCHANGED <<connected, lastMessage, reconnectAttempt, reconnectDelay, ping,
                 disposed, thrown, closesSinceOpen, priorFailures, disposedIn,
                 frameLog, pongLast, lastEnd>>
  /\ UNCHANGED <<feedVars, pollVars>>

\* The reconnect timeout fires: connect().
Reconnect ==
  /\ reconnectTimer
  /\ reconnectTimer' = FALSE
  /\ ConnectBody
  /\ UNCHANGED <<connected, lastMessage, reconnectAttempt, reconnectDelay, ping,
                 disposed, thrown, closesSinceOpen, priorFailures, disposedIn,
                 frameLog, pongLast, lastEnd>>
  /\ UNCHANGED <<feedVars, pollVars>>

\* The effect cleanup without "clearTimeout(reconnectTimer.current)".
DisposeNoClear ==
  /\ ~disposed
  /\ disposed' = TRUE
  /\ reconnectTimer' = reconnectTimer
  /\ readyState' = WsClose(readyState)
  /\ disposedIn' = readyState
  /\ UNCHANGED <<connected, lastMessage, reconnectAttempt, reconnectDelay, ping,
                 pingSent, thrown, closesSinceOpen, priorFailures, frameLog, pongLast, lastEnd>>
  /\ UNCHANGED <<feedVars, pollVars>>

\* The effect cleanup: clearTimeout(reconnectTimer.current); wsRef.current?.close()
Dispose ==
  /\ ~disposed
  /\ disposed' = TRUE
  /\ reconnectTimer' = FALSE
  /\ readyState' = WsClose(readyState)
  /\ disposedIn' = readyState
  /\ UNCHANGED <<connected, lastMessage, reconnectAttempt, reconnectDelay, ping,
                 pingSent, thrown, closesSinceOpen, priorFailures, frameLog, pongLast, lastEnd>>
  /\ UNCHANGED <<feedVars, pollVars>>

ChannelNext ==
  \/ OnOpen
  \/ HeartbeatTick
  \/ \E f \in Frames : OnMessage(f)
  \/ OnClose
  \/ OnError
  \/ Reconnect
  \/ Dispose

SpecChannel == Init /\ [][ChannelNext]_vars

\* Scheduling of the channel: a pending timeout fires (setTimeout), and a
\* server that accepts connections again opens one of the attempts made.
ChannelFairness == WF_vars(Reconnect) /\ SF_vars(OnOpen)

SpecChannelFair == Init /\ [][ChannelNext]_vars /\ ChannelFairness

----------------------------------------------------------------------------
\* AlertsFeed

\* String.prototype.toUpperCase on the action strings of the frames.
ToUpperCase(a) ==
  CASE a = "open"  -> "OPEN"
    [] a = "close" -> "CLOSE"
    [] a = "CLOSE" -> "CLOSE"

\* (data.action as string)?.toUpperCase() === 'CLOSE' ? 'CLOSE' : 'OPEN'
NormAction(a) ==
  IF a = Undefined THEN "OPEN"
  ELSE IF ToUpperCase(a) = "CLOSE" THEN "CLOSE" ELSE "OPEN"

\* The Alert built from the payload (the fields the claims read: the other
\* fields are copied or defaulted in the same way and never read back).
MakeAlert(data, t) ==
  [id |-> t, action |-> NormAction(data.action), pnl |-> data.pnl, timestamp |-> t]

\* .slice(-MAX_ALERTS): keeps the oldest end of the list.
TruncateTail(s) ==
  IF Len(s) <= MAX_ALERTS THEN s ELSE SubSeq(s, Len(s) - MAX_ALERTS + 1, Len(s))

\* .slice(0, MAX_ALERTS - 1): the oldest alert goes before the list is full.
TruncateEarly(s) == SubSeq(s, 1, Min(Len(s), MAX_ALERTS - 1))

\* .slice(0, MAX_ALERTS)
Truncate(s) == SubSeq(s, 1, Min(Len(s), MAX_ALERTS))

\* borderColor with a missing P&L read as zero: (alert.pnl ?? 0) >= 0.
BorderColorMissingAsZero(alert) ==
  IF alert.action = "OPEN" THEN "border-l-profit"
  ELSE IF \A x \in alert.pnl : x >= 0 THEN "border-l-profit"
  ELSE "border-l-loss"

\* const borderColor = (alert) => {
\*   if (alert.action === 'OPEN') return 'border-l-profit';
\*   if (alert.pnl != null && alert.pnl >= 0) return 'border-l-profit';
\*   return 'border-l-loss'; };
\* (actionBadge makes the same test: isProfit = alert.pnl != null && alert.pnl >= 0.)
BorderColor(alert) ==
  IF alert.action = "OPEN" THEN "border-l-profit"
  ELSE IF alert.pnl # {} /\ (\A x \in alert.pnl : x >= 0) THEN "border-l-profit"
  ELSE "border-l-loss"

\* The effect without the processedRef test.
AlertsEffectNoDedup ==
  /\ effectPending
  /\ ~thrown
  /\ effectPending' = FALSE
  /\ IF lastMessage.kind # "object" \/ lastMessage.type # "trade_update" THEN
       /\ lastOutcome' = "ignored"
       /\ UNCHANGED <<processedRef, alerts, inserted, thrown, ingested>>
     ELSE IF ~lastMessage.data.present THEN
       /\ processedRef' = now
       /\ thrown' = TRUE
       /\ lastOutcome' = "threw"
       /\ UNCHANGED <<alerts, inserted, ingested>>
     ELSE
       /\ processedRef' = now
       /\ alerts' = Truncate(<<MakeAlert(lastMessage.data, now)>> \o alerts)
       /\ inserted' = <<MakeAlert(lastMessage.data, now)>> \o inserted
       /\ lastOutcome' = "inserted"
       /\ ingested' = ingested + 1
       /\ UNCHANGED thrown
  /\ UNCHANGED <<readyState, connected, lastMessage, reconnectAttempt, reconnectTimer,
                 reconnectDelay, ping, pingSent, disposed, closesSinceOpen,
                 priorFailures, disposedIn, frameLog, pongLast, lastEnd>>
  /\ UNCHANGED <<now, pollVars>>

\* useEffect(() => { ... }, [lastMessage]): runs after a render in which
\* lastMessage is a new value (every parsed frame is a new object).
\*   if (!lastMessage || lastMessage.type !== 'trade_update') return;
\*   const data = lastMessage.data; const now = Date.now();
\*   if (processedRef.current === now) return;
\*   processedRef.current = now;
\*   const alert = { id: now, action: data.action ..., ... };   (throws a
\*       TypeError when data is undefined: the exception leaves the effect)
\*   setAlerts(prev => [alert, ...prev].slice(0, MAX_ALERTS));
AlertsEffect ==
  /\ effectPending
  /\ ~thrown
  /\ effectPending' = FALSE
  /\ IF lastMessage.kind # "object" \/ lastMessage.type # "trade_update" THEN
       /\ lastOutcome' = "ignored"
       /\ UNCHANGED <<processedRef, alerts, inserted, thrown, ingested>>
     ELSE IF processedRef = now THEN
       /\ lastOutcome' = "duplicate"
       /\ UNCHANGED <<processedRef, alerts, inserted, thrown, ingested>>
     ELSE IF ~lastMessage.data.present THEN
       /\ processedRef' = now
       /\ thrown' = TRUE
       /\ lastOutcome' = "threw"
       /\ UNCHANGED <<alerts, inserted, ingested>>
     ELSE
       /\ processedRef' = now
       /\ alerts' = Truncate(<<MakeAlert(lastMessage.data, now)>> \o alerts)
       /\ inserted' = <<MakeAlert(lastMessage.data, now)>> \o inserted
       /\ lastOutcome' = "inserted"
       /\ ingested' = ingested + 1
       /\ UNCHANGED thrown
  /\ UNCHANGED <<readyState, connected, lastMessage, reconnectAttempt, reconnectTimer,
                 reconnectDelay, ping, pingSent, disposed, closesSinceOpen,
                 priorFailures, disposedIn, frameLog, pongLast, lastEnd>>
  /\ UNCHANGED <<now, pollVars>>

\* The Clear button, rendered while the list is not empty:
\*   {alerts.length > 0 && <button onClick={() => setAlerts([])}>Clear</button>}
ClearAlerts ==
  /\ Len(alerts) > 0
  /\ alerts' = <<>>
  /\ UNCHANGED <<now, effectPending, processedRef, inserted, lastOutcome, ingested>>
  /\ UNCHANGED <<wsVars, pollVars>>

\* Date.now() advances by a millisecond. After the first FreePhase instants the
\* model lets the clock advance only from an instant in which a trade_update
\* was ingested, so that MaxNow instants fill the list beyond MAX_ALERTS.
ClockTick ==
  /\ now < MaxNow
  /\ now <= FreePhase \/ processedRef = now
  /\ now' = now + 1
  /\ UNCHANGED <<effectPending, processedRef, alerts, inserted, lastOutcome,
                 ingested>>
  /\ UNCHANGED <<wsVars, pollVars>>

\* After the first FreePhase instants the model sends one trade_update payload
\* only (the list would otherwise hold MAX_ALERTS independent payloads).
LateFrames ==
  { DefaultTradeFrame, "{\"type\":\"price_update\",\"data\":{\"price\":5}}" }

FramesNow == IF now <= FreePhase THEN Frames ELSE LateFrames

FeedNext ==
  \/ OnOpen
  \/ \E f \in FramesNow : OnMessage(f)
  \/ AlertsEffect
  \/ ClockTick

SpecFeed == Init /\ [][FeedNext]_vars

\* The feed with its Clear button in use, on a stream of trade updates of
\* one payload.
FeedUINext ==
  \/ OnOpen
  \/ OnMessage(DefaultTradeFrame)
  \/ AlertsEffect
  \/ ClockTick
  \/ ClearAlerts

SpecFeedUI == Init /\ [][FeedUINext]_vars

----------------------------------------------------------------------------
\* The poll loops: BotControls (status), PositionCard (position), useAccount
\* (account, risk), useTrades (trades, total), useLeaderboard (rankings,
\* progress, ltProgress). Init is the state after every mount effect has
\* called refresh() once.

Loops == {"status", "position", "account", "trades", "rankings"}

\* The responses of the server, numbered; a leaderboard response may or may
\* not carry lt_progress.
Versions == 1..MaxVersion

RECURSIVE SumOver(_, _)
SumOver(f, S) ==
  IF S = {} THEN 0
  ELSE LET x == CHOOSE y \in S : TRUE IN f[x] + SumOver(f, S \ {x})

InFlightTotal == SumOver(inflight, Loops)

\* const isLtRunning = ltProgress.status === 'running' || ltRunning
IsLtRunning(status, flag) == status = "running" \/ flag

\* The fast-poll effect without its cleanup: the 5 s interval is never cleared.
FastPollEffectNoCleanup(timers, running) ==
  IF running THEN timers \cup {FAST_POLL_MS} ELSE timers

\* useEffect(() => { if (!isLtRunning) return;
\*                   const id = setInterval(refresh, 5_000);
\*                   return () => clearInterval(id); }, [isLtRunning, refresh])
\* as it leaves the live intervals after the render in which isLtRunning is
\* `running`: the cleanup of the previous run, then the new run.
FastPollEffect(timers, running) ==
  IF running THEN timers \cup {FAST_POLL_MS} ELSE timers \ {FAST_POLL_MS}

\* The period each mount effect gives to setInterval.
IntervalMs(l) ==
  CASE l = "status"   -> STATUS_POLL_MS
    [] l = "position" -> POSITION_POLL_MS
    [] l = "account"  -> ACCOUNT_POLL_MS
    [] l = "trades"   -> TRADES_POLL_MS
    [] l = "rankings" -> RANKINGS_POLL_MS

\* The periods of the live intervals that call refresh() of loop l: the one
\* of its mount effect until the cleanup, and for the rankings the 5 s
\* interval of StrategyLeaderboard as well.
LiveIntervals(l) ==
  IF l = "rankings" THEN rankTimers
  ELSE IF mounted[l] THEN {IntervalMs(l)} ELSE {}

\* The model starts a fetch from an interval only while fewer than
\* MaxInFlight are in flight over all loops.
HasRoom == InFlightTotal < MaxInFlight

\* The setInterval callback of loop l: refresh() is called and awaits its
\* response. The interval is live from the mount effect to its cleanup.
Tick(l) ==
  /\ mounted[l]
  /\ HasRoom
  /\ inflight' = [inflight EXCEPT ![l] = @ + 1]
  /\ UNCHANGED <<snap, tradesError, blendVars, lbVars, ctlVars>>
  /\ UNCHANGED <<wsVars, feedVars, startVars, lifeVars>>

\* The setters of a useAccount that awaits its two requests one after the
\* other and stores each answer as it comes: the account is set, the risk
\* metrics are not (their request failed).
StoreAccountFirst(l, v, hasLt) ==
  CASE l = "status"   -> [snap EXCEPT !.status = v]
    [] l = "position" -> [snap EXCEPT !.position = v]
    [] l = "account"  -> [snap EXCEPT !.account = v]
    [] l = "trades"   -> [snap EXCEPT !.trades = v, !.total = v]
    [] l = "rankings" -> [snap EXCEPT !.rankings = v, !.progress = v,
                                      !.ltProgress = IF hasLt THEN v ELSE @]

\* The cells refresh() of loop l sets from response v.
\*   BotControls:    setStatus(await getStatus())
\*   PositionCard:   setPosition(data.position)
\*   useAccount:     setAccount(a); setRisk(r)      (after Promise.all)
\*   useTrades:      setTrades(data.trades); setTotal(data.total)
\*   useLeaderboard: setRankings(data.rankings); setProgress(data.progress);
\*                   if (data.lt_progress) setLtProgress(data.lt_progress)
Store(l, v, hasLt) ==
  CASE l = "status"   -> [snap EXCEPT !.status = v]
    [] l = "position" -> [snap EXCEPT !.position = v]
    [] l = "account"  -> [snap EXCEPT !.account = v, !.risk = v]
    [] l = "trades"   -> [snap EXCEPT !.trades = v, !.total = v]
    [] l = "rankings" -> [snap EXCEPT !.rankings = v, !.progress = v,
                                      !.ltProgress = IF hasLt THEN v ELSE @]

\* refresh() of useLeaderboard that stores the rankings in reverse order.
SetRankingsReversed(l) ==
  IF l = "rankings"
  THEN [i \in 1..Len(srvRankings) |-> srvRankings[Len(srvRankings) + 1 - i]]
  ELSE rankings

\* setRankings(data.rankings): the list is stored as the server sent it.
SetRankings(l) == IF l = "rankings" THEN srvRankings ELSE rankings

\* refresh() of loop l resumes with response v: the try block completes. The
\* response tells the state of the server at that moment: the status carries
\* the trading mode, the leaderboard response the rankings and (when it has
\* lt_progress) the state of the long-horizon run. The fast-poll effect of
\* StrategyLeaderboard runs in the render that follows. Once the component
\* is unmounted its cells are gone: React drops the updates, nothing renders.
FetchOk(l, v, hasLt) ==
  /\ inflight[l] > 0
  /\ hasLt => l = "rankings"
  /\ inflight' = [inflight EXCEPT ![l] = @ - 1]
  /\ IF mounted[l] THEN
       /\ snap' = Store(l, v, hasLt)
       /\ tradesError' = IF l = "trades" THEN "null" ELSE tradesError
       /\ statusMode' = IF l = "status" THEN srvMode ELSE statusMode
       /\ rankings' = SetRankings(l)
       /\ ltStatus' = IF l = "rankings" /\ hasLt THEN srvLt ELSE ltStatus
       /\ rankTimers' = FastPollEffect(rankTimers, IsLtRunning(ltStatus', ltRunning))
       /\ lastCancel' = IF FAST_POLL_MS \in rankTimers \ rankTimers'
                        THEN "fetch" ELSE lastCancel
     ELSE
       UNCHANGED <<snap, tradesError, statusMode, rankings, ltStatus, rankTimers,
                   lastCancel>>
  /\ UNCHANGED <<summaries, srvRankings, srvLt, ltRunning, trigReq, stRefresh,
                 ltRefresh, flagTimeout, srvMode, modeReq, lastTyped>>
  /\ UNCHANGED <<wsVars, feedVars, startVars, lifeVars>>

\* A failed fetch that also resets the loop's cells to their initial values.
FetchFailClears(l) ==
  /\ inflight[l] > 0
  /\ inflight' = [inflight EXCEPT ![l] = @ - 1]
  /\ snap' = Store(l, 0, l = "rankings")
  /\ tradesError' = IF l = "trades" THEN "Failed to fetch trade data" ELSE tradesError
  /\ UNCHANGED <<blendVars, lbVars, ctlVars>>
  /\ UNCHANGED <<wsVars, feedVars, startVars, lifeVars>>

\* A failed fetch that reports its error in the one error cell there is,
\* whichever loop failed.
FetchFailSharedError(l) ==
  /\ inflight[l] > 0
  /\ inflight' = [inflight EXCEPT ![l] = @ - 1]
  /\ snap' = snap
  /\ tradesError' = "Failed to fetch trade data"
  /\ UNCHANGED <<blendVars, lbVars, ctlVars>>
  /\ UNCHANGED <<wsVars, feedVars, startVars, lifeVars>>

\* refresh() of loop l resumes with a rejection (for useAccount: of either
\* request): the catch block runs.
\*   useTrades: setError('Failed to fetch trade data');  all others: /* ignore */
FetchFail(l) ==
  /\ inflight[l] > 0
  /\ inflight' = [inflight EXCEPT ![l] = @ - 1]
  /\ snap' = snap
  /\ tradesError' = IF l = "trades" /\ mounted[l]
                    THEN "Failed to fetch trade data" ELSE tradesError
  /\ UNCHANGED <<blendVars, lbVars, ctlVars>>
  /\ UNCHANGED <<wsVars, feedVars, startVars, lifeVars>>

\* The Dashboard unmounts (every loop lives in the Dashboard or in a child it
\* always renders, so the loops are disposed together): the cleanup of each
\* mount effect runs clearInterval(interval), the cleanup of the fast-poll
\* effect of StrategyLeaderboard clears the 5 s interval. Nothing else is
\* cancelled: requests in flight and pending timeouts stay.
Unmount ==
  /\ \E l \in Loops : mounted[l]
  /\ mounted' = [l \in Loops |-> FALSE]
  /\ rankTimers' = {}
  /\ UNCHANGED <<srvLt, ltStatus, ltRunning, trigReq, stRefresh, ltRefresh,
                 flagTimeout, lastCancel>>
  /\ UNCHANGED <<snap, tradesError, inflight, blendVars, ctlVars, startVars,
                 orderVars>>
  /\ UNCHANGED <<wsVars, feedVars>>

PollNext ==
  \/ \E l \in Loops : Tick(l)
  \/ \E l \in Loops, v \in Versions, hasLt \in BOOLEAN : FetchOk(l, v, hasLt)
  \/ \E l \in Loops : FetchFail(l)

SpecPoll == Init /\ [][PollNext]_vars

----------------------------------------------------------------------------
\* The leaderboard's rankings. The server blends and sorts them
\* (GET /leaderboard/rankings answers with `rankings`); the dashboard stores
\* the list as received and lists it in that order. Scores are whole points;
\* a blended score is held in hundredths of a point, so that 55% and 45% of a
\* score are exact.

\* The strategies of the model, in the order the server first meets them.
Strategies == <<"orb", "vwap_reversion">>

StScores == {20, 60}

\* A long-horizon summary: absent, null, flagged as insufficient data, or scored.
LtMissing(k) == [kind |-> k, score |-> 0]
LtScore(x)   == [kind |-> "score", score |-> x]
LtValues == {LtMissing("absent"), LtMissing("null"), LtMissing("insufficient"),
             LtScore(20)}

HasLt(lt) == lt.kind = "score"

\* A blend that reads a missing long-horizon score as 0.
BlendedMissingAsZero(st, lt) == ST_WEIGHT * st + LT_WEIGHT * lt.score

\* The blended score, in hundredths: 0.55 * ST + 0.45 * LT with a long-horizon
\* score, the short-horizon score alone without one.
Blended(st, lt) ==
  IF HasLt(lt) THEN ST_WEIGHT * st + LT_WEIGHT * lt.score ELSE 100 * st

\* The StrategyRanking of strategy n (the fields the claims read); a null
\* lt_composite_score is the empty set.
Row(n, sum) ==
  [strategy_name |-> n,
   st_composite_score |-> sum.st,
   lt_composite_score |-> IF HasLt(sum.lt) THEN {sum.lt.score} ELSE {},
   composite_score |-> Blended(sum.st, sum.lt)]

\* An insertion that puts the row in front of the rows of equal score.
RECURSIVE InsertDescUnstable(_, _)
InsertDescUnstable(r, s) ==
  IF s = <<>> THEN <<r>>
  ELSE IF Head(s).composite_score > r.composite_score
       THEN <<Head(s)>> \o InsertDescUnstable(r, Tail(s))
       ELSE <<r>> \o s

\* Insertion into a list sorted by blended score, descending: behind the rows
\* of greater or equal score.
RECURSIVE InsertDesc(_, _)
InsertDesc(r, s) ==
  IF s = <<>> THEN <<r>>
  ELSE IF Head(s).composite_score >= r.composite_score
       THEN <<Head(s)>> \o InsertDesc(r, Tail(s))
       ELSE <<r>> \o s

\* Stable sort, descending by blended score.
RECURSIVE SortInto(_, _)
SortInto(input, acc) ==
  IF input = <<>> THEN acc
  ELSE SortInto(Tail(input), InsertDesc(Head(input), acc))

SortDesc(s) == SortInto(s, <<>>)

\* The ranked strategies in their prior relative order: those of the prior
\* ranking first, in its order, then the newly ranked ones.
PriorOrder(sums, prior) ==
  LET InPrior(n) == \E i \in 1..Len(prior) : prior[i].strategy_name = n
      New(n)     == ~InPrior(n)
      Ranked(n)  == sums[n].ranked
      names      == [i \in 1..Len(prior) |-> prior[i].strategy_name]
                      \o SelectSeq(Strategies, New)
  IN SelectSeq(names, Ranked)

\* The blender: every ranked strategy's row, sorted.
Blend(sums, prior) ==
  LET order == PriorOrder(sums, prior) IN
    SortDesc([i \in 1..Len(order) |-> Row(order[i], sums[order[i]])])

\* A backtest run of strategy n completes with short-horizon score st and
\* long-horizon summary lt; the server blends again.
BacktestCompletes(n, st, lt) ==
  /\ summaries' = [summaries EXCEPT ![n] = [ranked |-> TRUE, st |-> st, lt |-> lt]]
  /\ srvRankings' = Blend(summaries', srvRankings)
  /\ UNCHANGED <<rankings, snap, tradesError, inflight, lbVars, ctlVars>>
  /\ UNCHANGED <<wsVars, feedVars, startVars, lifeVars>>

\* The server blends again on unchanged summaries.
BlendAgain ==
  /\ srvRankings' = Blend(summaries, srvRankings)
  /\ UNCHANGED <<summaries, rankings, snap, tradesError, inflight, lbVars, ctlVars>>
  /\ UNCHANGED <<wsVars, feedVars, startVars, lifeVars>>

\* handleStTrigger resumes after `await triggerBacktests()`:
\* setTimeout(refresh, 2000). (One such timeout at a time in the model.)
StTrigger ==
  /\ mounted["rankings"]
  /\ ~stRefresh
  /\ stRefresh' = TRUE
  /\ UNCHANGED <<srvLt, ltStatus, ltRunning, rankTimers, trigReq, ltRefresh,
                 flagTimeout, lastCancel>>
  /\ UNCHANGED <<snap, tradesError, inflight, blendVars, ctlVars>>
  /\ UNCHANGED <<wsVars, feedVars, startVars, lifeVars>>

\* A pending setTimeout(refresh, 2000) fires: refresh() is called. (No more
\* than MaxInFlight fetches of the rankings are in flight in the model.)
RefreshTimeoutFires ==
  /\ stRefresh \/ ltRefresh
  /\ inflight["rankings"] < MaxInFlight
  /\ \/ stRefresh /\ stRefresh' = FALSE /\ ltRefresh' = ltRefresh
     \/ ltRefresh /\ ltRefresh' = FALSE /\ stRefresh' = stRefresh
  /\ inflight' = [inflight EXCEPT !["rankings"] = @ + 1]
  /\ UNCHANGED <<srvLt, ltStatus, ltRunning, rankTimers, trigReq, flagTimeout,
                 lastCancel>>
  /\ UNCHANGED <<snap, tradesError, blendVars, ctlVars>>
  /\ UNCHANGED <<wsVars, feedVars, startVars, lifeVars>>

\* The rows of the leaderboard table: rankings.map((r, i) => ...) shows rank
\* i + 1, the name, and ScorePill's blended score with a star when
\* lt_composite_score is not null.
Listed(rs) ==
  [i \in 1..Len(rs) |->
     [rank |-> i, strategy_name |-> rs[i].strategy_name,
      blended |-> rs[i].composite_score, star |-> rs[i].lt_composite_score # {}]]

BlendNext ==
  \/ \E n \in DOMAIN summaries, st \in StScores, lt \in LtValues :
       BacktestCompletes(n, st, lt)
  \/ BlendAgain
  \/ StTrigger
  \/ RefreshTimeoutFires
  \/ \E hasLt \in BOOLEAN : FetchOk("rankings", 1, hasLt)
  \/ FetchFail("rankings")

SpecBlend == Init /\ [][BlendNext]_vars

----------------------------------------------------------------------------
\* BotControls: the switch between paper and live trading.

\* The phrase the prompt asks for.
Phrase == "I understand the risks of live trading"

\* window.prompt returns null when the dialog is cancelled.
PromptNull == "null (cancelled)"

\* What the user may give the prompt.
PromptResults ==
  { Phrase,
    "i understand the risks of live trading",
    "I understand the risks of live trading ",
    "I understand the risks",
    "yes",
    "",
    PromptNull }

NoRequest == [mode |-> "none", confirmation |-> Undefined]

\* handleModeToggle with a prompt that accepts any text: only a cancelled
\* dialog is refused.
ModeToggleAnyText(typed) ==
  /\ mounted["status"]
  /\ statusMode # "none"
  /\ modeReq = NoRequest
  /\ inflight["status"] < MaxInFlight
  /\ IF statusMode = "paper" THEN
       /\ lastTyped' = typed
       /\ modeReq' = IF typed = PromptNull THEN modeReq
                     ELSE [mode |-> "live", confirmation |-> typed]
     ELSE
       /\ lastTyped' = lastTyped
       /\ modeReq' = [mode |-> "paper", confirmation |-> Undefined]
  /\ UNCHANGED <<srvMode, statusMode>>
  /\ UNCHANGED <<snap, tradesError, inflight, blendVars, lbVars>>
  /\ UNCHANGED <<wsVars, feedVars, startVars, lifeVars>>

\* handleModeToggle, up to its await of setMode():
\*   if (!status) return;
\*   const newMode = status.mode === 'paper' ? 'live' : 'paper';
\*   if (newMode === 'live') {
\*     const confirmed = window.prompt(...);
\*     if (confirmed !== 'I understand the risks of live trading') return;
\*     await setMode('live', confirmed);
\*   } else { await setMode('paper'); }
\* (In the model the button is used while no mode request is awaited and
\* fewer than MaxInFlight status fetches are in flight.)
ModeToggle(typed) ==
  /\ mounted["status"]
  /\ statusMode # "none"
  /\ modeReq = NoRequest
  /\ inflight["status"] < MaxInFlight
  /\ IF statusMode = "paper" THEN
       /\ lastTyped' = typed
       /\ modeReq' = IF typed # Phrase THEN modeReq
                     ELSE [mode |-> "live", confirmation |-> typed]
     ELSE
       /\ lastTyped' = lastTyped
       /\ modeReq' = [mode |-> "paper", confirmation |-> Undefined]
  /\ UNCHANGED <<srvMode, statusMode>>
  /\ UNCHANGED <<snap, tradesError, inflight, blendVars, lbVars>>
  /\ UNCHANGED <<wsVars, feedVars, startVars, lifeVars>>

\* setMode() resolves (the server has switched) and the handler goes on:
\*   await refresh();
ModeAccepted ==
  /\ modeReq # NoRequest
  /\ srvMode' = modeReq.mode
  /\ modeReq' = NoRequest
  /\ inflight' = [inflight EXCEPT !["status"] = @ + 1]
  /\ UNCHANGED <<statusMode, lastTyped>>
  /\ UNCHANGED <<snap, tradesError, blendVars, lbVars>>
  /\ UNCHANGED <<wsVars, feedVars, startVars, lifeVars>>

\* setMode() rejects: the rejection leaves the handler, refresh() is not called.
ModeRejected ==
  /\ modeReq # NoRequest
  /\ modeReq' = NoRequest
  /\ UNCHANGED <<srvMode, statusMode, lastTyped>>
  /\ UNCHANGED <<snap, tradesError, inflight, blendVars, lbVars>>
  /\ UNCHANGED <<wsVars, feedVars, startVars, lifeVars>>

\* handleStart / handleStop, up to the await of the request (both buttons are
\* disabled while `loading`):
\*   setLoading(true); try { await startBot(); ...
HandleStartStop ==
  /\ mounted["status"]
  /\ ~botReq
  /\ botReq' = TRUE
  /\ UNCHANGED <<snap, tradesError, inflight, blendVars, lbVars, ctlVars>>
  /\ UNCHANGED <<wsVars, feedVars, lifeVars>>

\* handleStart / handleStop resumes:
\*   ... await refresh(); }            (only when the request succeeded)
\*   finally { setLoading(false); }
\* `loading` is lowered when refresh() has settled; the model lowers it here
\* (the buttons are the only readers). No more than MaxInFlight status
\* fetches are in flight in the model.
StartStopSettles(ok) ==
  /\ botReq
  /\ ok => inflight["status"] < MaxInFlight
  /\ botReq' = FALSE
  /\ inflight' = IF ok THEN [inflight EXCEPT !["status"] = @ + 1] ELSE inflight
  /\ UNCHANGED <<snap, tradesError, blendVars, lbVars, ctlVars>>
  /\ UNCHANGED <<wsVars, feedVars, lifeVars>>

ControlsNext ==
  \/ HandleStartStop
  \/ \E ok \in BOOLEAN : StartStopSettles(ok)
  \/ \E typed \in PromptResults : ModeToggle(typed)
  \/ ModeAccepted
  \/ ModeRejected
  \/ \E v \in Versions : FetchOk("status", v, FALSE)
  \/ FetchFail("status")

SpecControls == Init /\ [][ControlsNext]_vars

----------------------------------------------------------------------------
\* StrategyLeaderboard: the long-horizon (15Y) backtest and the fast poll.

\* The server starts a long-horizon run (after a trigger, or on its own).
SrvLtStart ==
  /\ srvLt # "running"
  /\ srvLt' = "running"
  /\ UNCHANGED <<ltStatus, ltRunning, rankTimers, trigReq, stRefresh, ltRefresh,
                 flagTimeout, lastCancel>>
  /\ UNCHANGED <<snap, tradesError, inflight, blendVars, ctlVars>>
  /\ UNCHANGED <<wsVars, feedVars, startVars, lifeVars>>

\* The run ends.
SrvLtFinish ==
  /\ srvLt = "running"
  /\ srvLt' = "complete"
  /\ UNCHANGED <<ltStatus, ltRunning, rankTimers, trigReq, stRefresh, ltRefresh,
                 flagTimeout, lastCancel>>
  /\ UNCHANGED <<snap, tradesError, inflight, blendVars, ctlVars>>
  /\ UNCHANGED <<wsVars, feedVars, startVars, lifeVars>>

\* handleLtTrigger, up to its await (the button is disabled while isLtRunning):
\*   setLtRunning(true); try { await triggerLongTermBacktest('2010-01-01'); ...
\* The fast-poll effect runs in the render that follows.
LtTrigger ==
  /\ mounted["rankings"]
  /\ ~IsLtRunning(ltStatus, ltRunning)
  /\ ~trigReq
  /\ ltRunning' = TRUE
  /\ trigReq' = TRUE
  /\ rankTimers' = FastPollEffect(rankTimers, IsLtRunning(ltStatus, ltRunning'))
  /\ UNCHANGED <<srvLt, ltStatus, stRefresh, ltRefresh, flagTimeout, lastCancel>>
  /\ UNCHANGED <<snap, tradesError, inflight, blendVars, ctlVars>>
  /\ UNCHANGED <<wsVars, feedVars, startVars, lifeVars>>

\* handleLtTrigger resumes:
\*   ... setTimeout(refresh, 2000); }         (only when the request succeeded)
\*   finally { setTimeout(() => setLtRunning(false), 3000); }
LtTriggerSettles(ok) ==
  /\ trigReq
  /\ trigReq' = FALSE
  /\ ltRefresh' = (ltRefresh \/ ok)
  /\ flagTimeout' = TRUE
  /\ UNCHANGED <<srvLt, ltStatus, ltRunning, rankTimers, stRefresh, lastCancel>>
  /\ UNCHANGED <<snap, tradesError, inflight, blendVars, ctlVars>>
  /\ UNCHANGED <<wsVars, feedVars, startVars, lifeVars>>

\* The 3000 ms timeout fires (after the 2000 ms one set in the same task):
\* setLtRunning(false), and the fast-poll effect runs in the render that follows.
FlagTimeoutFires ==
  /\ flagTimeout
  /\ ~ltRefresh
  /\ flagTimeout' = FALSE
  /\ IF mounted["rankings"] THEN
       /\ ltRunning' = FALSE
       /\ rankTimers' = FastPollEffect(rankTimers, IsLtRunning(ltStatus, ltRunning'))
       /\ lastCancel' = IF FAST_POLL_MS \in rankTimers \ rankTimers'
                        THEN "flag" ELSE lastCancel
     ELSE
       UNCHANGED <<ltRunning, rankTimers, lastCancel>>
  /\ UNCHANGED <<srvLt, ltStatus, trigReq, stRefresh, ltRefresh>>
  /\ UNCHANGED <<snap, tradesError, inflight, blendVars, ctlVars>>
  /\ UNCHANGED <<wsVars, feedVars, startVars, lifeVars>>

\* A live interval of period p fires: refresh() is called. (No more than
\* MaxInFlight fetches of the rankings are in flight in the model.)
TimerTick(p) ==
  /\ p \in rankTimers
  /\ inflight["rankings"] < MaxInFlight
  /\ inflight' = [inflight EXCEPT !["rankings"] = @ + 1]
  /\ UNCHANGED <<snap, tradesError, blendVars, lbVars, ctlVars>>
  /\ UNCHANGED <<wsVars, feedVars, startVars, lifeVars>>

LeaderboardNext ==
  \/ SrvLtStart
  \/ SrvLtFinish
  \/ LtTrigger
  \/ \E ok \in BOOLEAN : LtTriggerSettles(ok)
  \/ FlagTimeoutFires
  \/ RefreshTimeoutFires
  \/ \E p \in {RANKINGS_POLL_MS, FAST_POLL_MS} : TimerTick(p)
  \/ \E v \in Versions, hasLt \in BOOLEAN : FetchOk("rankings", v, hasLt)
  \/ FetchFail("rankings")

SpecLeaderboard == Init /\ [][LeaderboardNext]_vars

----------------------------------------------------------------------------
\* The loops from mount to unmount: the intervals, the responses, the unmount
\* of each component, and the handlers that call refresh() on their own
\* (handleStTrigger's timeout, handleStart and handleStop).

LifecycleNext ==
  \/ Unmount
  \/ \E l \in Loops : Tick(l)
  \/ \E l \in Loops : FetchOk(l, 1, FALSE)
  \/ \E l \in Loops : FetchFail(l)
  \/ StTrigger
  \/ RefreshTimeoutFires
  \/ HandleStartStop
  \/ \E ok \in BOOLEAN : StartStopSettles(ok)

SpecLifecycle == Init /\ [][LifecycleNext]_vars

----------------------------------------------------------------------------
\* The state the UI reads, with every component that writes to it at work:
\* the channel, the feed (its effect and its Clear button), the five loops
\* and the server's blender, on a small set of frames, for one connection and
\* the mount fetch of each loop.

FacadeNext ==
  \/ OnOpen
  \/ \E f \in LateFrames : OnMessage(f)
  \/ OnClose
  \/ AlertsEffect
  \/ ClearAlerts
  \/ \E l \in Loops, hasLt \in BOOLEAN : FetchOk(l, 1, hasLt)
  \/ \E l \in Loops : FetchFail(l)
  \/ BacktestCompletes("orb", 60, LtScore(20))

SpecFacade == Init /\ [][FacadeNext]_vars

----------------------------------------------------------------------------
\* The feed under the tabbed dashboard.

\* The model follows remounts of the feed until this many alerts were made.
MaxRemountAlerts == 3

\* {activeTab === 'dashboard' && (<> ... <AlertsFeed lastMessage={lastMessage} />
\* ... </>)}: leaving the dashboard tab unmounts the feed and coming back
\* mounts a new one, while lastMessage, state of the hook the dashboard itself
\* calls, keeps its value. The new instance starts from useState<Alert[]>([])
\* and useRef<number>(0), and React runs its effect after the mount.
FeedRemount ==
  /\ ~thrown
  /\ Len(inserted) < MaxRemountAlerts
  /\ alerts' = <<>>
  /\ processedRef' = 0
  /\ effectPending' = TRUE
  /\ UNCHANGED <<now, inserted, lastOutcome, ingested>>
  /\ UNCHANGED <<wsVars, pollVars>>

FeedTabsNext ==
  \/ OnOpen
  \/ OnMessage(DefaultTradeFrame)
  \/ AlertsEffect
  \/ ClockTick
  \/ FeedRemount

SpecFeedTabs == Init /\ [][FeedTabsNext]_vars

----------------------------------------------------------------------------
\* The poll loops with the order of their fetches followed: every refresh()
\* call of a loop gets the next number, and the response of call n is
\* response n.

\* The loops whose fetches are followed.
OrderLoops == {"trades", "rankings"}

\* The setInterval callback of loop l, as Tick(l), for the first MaxVersion
\* calls of the loop: refresh() is called and awaits its response. (No more
\* than MaxInFlight fetches of the loop are in flight in the model.)
TickOrd(l) ==
  /\ mounted[l]
  /\ inflight[l] < MaxInFlight
  /\ startSeq[l] < MaxVersion
  /\ inflight' = [inflight EXCEPT ![l] = @ + 1]
  /\ startSeq' = [startSeq EXCEPT ![l] = @ + 1]
  /\ reqs' = reqs \cup {<<l, startSeq[l] + 1>>}
  /\ UNCHANGED <<snap, tradesError, blendVars, lbVars, ctlVars, okMax>>
  /\ UNCHANGED <<wsVars, feedVars, startVars, mounted>>

\* Call n of refresh() of loop l resumes with its response, as FetchOk(l, n,
\* hasLt): the try block completes, whatever other calls of the loop were
\* started or have settled in the meantime (refresh holds no number of its
\* call and no AbortController).
FetchOkOrd(l, n, hasLt) ==
  /\ <<l, n>> \in reqs
  /\ hasLt => l = "rankings"
  /\ reqs' = reqs \ {<<l, n>>}
  /\ okMax' = [okMax EXCEPT ![l] = IF n > @ THEN n ELSE @]
  /\ inflight' = [inflight EXCEPT ![l] = @ - 1]
  /\ IF mounted[l] THEN
       /\ snap' = Store(l, n, hasLt)
       /\ tradesError' = IF l = "trades" THEN "null" ELSE tradesError
       /\ statusMode' = IF l = "status" THEN srvMode ELSE statusMode
       /\ rankings' = SetRankings(l)
       /\ ltStatus' = IF l = "rankings" /\ hasLt THEN srvLt ELSE ltStatus
       /\ rankTimers' = FastPollEffect(rankTimers, IsLtRunning(ltStatus', ltRunning))
       /\ lastCancel' = IF FAST_POLL_MS \in rankTimers \ rankTimers'
                        THEN "fetch" ELSE lastCancel
     ELSE
       UNCHANGED <<snap, tradesError, statusMode, rankings, ltStatus, rankTimers,
                   lastCancel>>
  /\ UNCHANGED <<summaries, srvRankings, srvLt, ltRunning, trigReq, stRefresh,
                 ltRefresh, flagTimeout, srvMode, modeReq, lastTyped>>
  /\ UNCHANGED <<wsVars, feedVars, startVars, mounted, startSeq>>

\* Call n of refresh() of loop l resumes with a rejection, as FetchFail(l).
FetchFailOrd(l, n) ==
  /\ <<l, n>> \in reqs
  /\ reqs' = reqs \ {<<l, n>>}
  /\ inflight' = [inflight EXCEPT ![l] = @ - 1]
  /\ snap' = snap
  /\ tradesError' = IF l = "trades" /\ mounted[l]
                    THEN "Failed to fetch trade data" ELSE tradesError
  /\ UNCHANGED <<blendVars, lbVars, ctlVars, startSeq, okMax>>
  /\ UNCHANGED <<wsVars, feedVars, startVars, mounted>>

OrderNext ==
  \/ \E l \in OrderLoops : TickOrd(l)
  \/ \E l \in OrderLoops, n \in Versions : FetchOkOrd(l, n, l = "rankings")
  \/ \E l \in OrderLoops, n \in Versions : FetchFailOrd(l, n)

SpecOrder == Init /\ [][OrderNext]_vars

----------------------------------------------------------------------------
\* The whole dashboard. The channel, the feed and the poll loops share no
\* variable but lastMessage (written by the channel, read by the feed), so
\* each is also given a specification of its own above: SpecChannel, SpecFeed
\* (the channel's open and message handlers with the feed) and SpecPoll.

Next == ChannelNext \/ FeedNext \/ PollNext

Spec == Init /\ [][Next]_vars

----------------------------------------------------------------------------
\* Claims about the channel (checked under SpecChannel).

\* The delays of 1, 2, 3, ... consecutive closes, as the documentation lists them.
ScheduleTable == <<3000, 6000, 12000, 24000, 48000, 60000, 60000>>
ExpectedDelay(k) == IF k <= Len(ScheduleTable) THEN ScheduleTable[k] ELSE 60000

\* C1: the k-th consecutive close since the last open (or since mount) found
\* the attempt count at n = k - 1, scheduled the reconnect after
\* min(3000 * 2^n, 60000) ms, i.e. 3000, 6000, 12000, 24000, 48000, 60000,
\* 60000, ..., and left the attempt count at n + 1.
C1_BackoffSchedule ==
  closesSinceOpen >= 1 =>
    LET n == closesSinceOpen - 1 IN
      /\ reconnectAttempt = n + 1
      /\ reconnectDelay = ExpectedDelay(closesSinceOpen)
      /\ reconnectDelay = (IF 3000 * 2^n <= 60000 THEN 3000 * 2^n ELSE 60000)

\* Witness of C1: the seventh close in a row has scheduled the capped delay a
\* second time (backoff(5) = backoff(6) = 60000).
C1_Witness ==
  reconnectTimer /\ closesSinceOpen = 7 /\ reconnectDelay = 60000

\* C2: while the socket is OPEN the attempt count is 0, and the close of a
\* socket that had been opened (its heartbeat interval is cleared by that
\* close) schedules the reconnect after exactly 3000 ms.
C2_ResetOnOpen ==
  /\ [](readyState = "OPEN" => reconnectAttempt = 0)
  /\ [][(ping /\ ~ping') => (reconnectTimer' /\ reconnectDelay' = 3000)]_vars

\* Witness of C2: an open that came after at least three failed attempts was
\* followed by a close that scheduled 3000 ms.
C2_Witness ==
  /\ reconnectTimer
  /\ closesSinceOpen = 1
  /\ priorFailures >= 3
  /\ reconnectDelay = 3000

\* C3: when the channel was disposed while its socket was CLOSED (the
\* reconnect timeout pending), the timeout is cancelled and the socket stays
\* CLOSED for ever: no further connection is attempted.
C3_DisposeCancelsReconnect ==
  disposedIn = "CLOSED" => (readyState = "CLOSED" /\ ~reconnectTimer)

\* Witness of C3: disposed with a reconnect scheduled after two failed closes.
C3_Witness ==
  disposed /\ disposedIn = "CLOSED" /\ closesSinceOpen >= 2

\* C4 (as claimed): after disposal, in whatever state, no reconnect timeout is
\* pending and no connection is being opened or open.  (The heartbeat part of
\* the claim is left out: this weaker statement is already violated.)
C4_NoTimerAfterDispose ==
  disposed => (~reconnectTimer /\ readyState \notin {"CONNECTING", "OPEN"})

\* Frames that are not JSON text.
NonJsonFrames == {f \in Frames : JSONParse(f).kind = "SyntaxError"}

\* C9: a frame that is not parseable JSON changes nothing of the channel:
\* lastMessage, the thrown flag, the connection state, connected, the attempt
\* count and both timers keep their values and no effect run is requested; the
\* socket is still OPEN, so later frames are still delivered.
C9_MalformedFrameDropped ==
  [][(\E f \in NonJsonFrames : OnMessage(f)) =>
       /\ UNCHANGED <<lastMessage, thrown, readyState, connected, reconnectAttempt,
                      reconnectTimer, reconnectDelay, ping, effectPending>>
       /\ readyState' = "OPEN"
       /\ ~thrown']_vars

\* Witness of C9: after a non-JSON frame, a later frame was stored.
C9_Witness ==
  frameLog = "recovered" /\ lastMessage.type = "price_update" /\ ~thrown

----------------------------------------------------------------------------
\* Claims about the alert feed (checked under SpecFeed).

\* C5: the feed never retains more than 50 alerts, and it always retains the
\* most recently inserted ones, newest first: all of them while fewer than 50
\* were inserted, exactly the newest 50 from then on.
C5_BoundedNewestFirst ==
  /\ Len(alerts) <= 50
  /\ Len(inserted) <= 50 => alerts = inserted
  /\ Len(inserted) >= 50 => (Len(alerts) = 50 /\ alerts = SubSeq(inserted, 1, 50))

\* Witness of C5: 52 alerts were inserted, so two have been evicted.
C5_Witness ==
  Len(inserted) = 52 /\ Len(alerts) = 50 /\ alerts[50].id = inserted[50].id

\* C6: an effect run for a trade_update in the instant of the previous ingest
\* leaves the retained list unchanged, and after such a discard exactly one
\* retained alert carries that instant as its identity.
C6_SameInstantCollapses ==
  /\ [][(effectPending /\ ~effectPending' /\ lastMessage.kind = "object"
          /\ lastMessage.type = "trade_update" /\ processedRef = now)
        => (alerts' = alerts /\ inserted' = inserted)]_vars
  /\ []((lastOutcome = "duplicate" /\ processedRef = now /\ ~thrown) =>
          Cardinality({i \in 1..Len(alerts) : alerts[i].id = now}) = 1)

\* Witness of C6: the discarded message was a different event (a close with a
\* loss) from the one retained for that instant (an open).
C6_Witness ==
  /\ lastOutcome = "duplicate"
  /\ processedRef = now
  /\ Len(alerts) >= 1
  /\ alerts[1].id = now
  /\ alerts[1].action = "OPEN"
  /\ lastMessage.data.action = "close"
  /\ lastMessage.data.pnl = {-5}

----------------------------------------------------------------------------
\* Claims about the poll loops (checked under SpecPoll).

\* C7: a failed fetch of any loop leaves every snapshot cell as it was.
C7_FailurePreservesValue ==
  [][\A l \in Loops : FetchFail(l) => snap' = snap]_vars

\* Witness of C7: useTrades holds the data of response 2 although its latest
\* fetch failed.
C7_Witness ==
  /\ tradesError # "null"
  /\ snap.trades = 2
  /\ snap.total = 2

\* The error a loop exposes: only useTrades has an error cell.
LastError(l) == IF l = "trades" THEN tradesError ELSE "null"

\* C8 (as claimed): after a failed fetch of any loop that loop's lastError is
\* not null, and after a successful one it is null.
C8_FailureSetsLastError ==
  [][\A l \in Loops :
       /\ FetchFail(l) => LastError(l)' # "null"
       /\ (\E v \in Versions, hasLt \in BOOLEAN : FetchOk(l, v, hasLt))
            => LastError(l)' = "null"]_vars

\* C11 (as claimed): no loop ever has two of its own fetches in flight.
C11_OneFetchPerLoop ==
  \A l \in Loops : inflight[l] <= 1

----------------------------------------------------------------------------
\* Claims about delivery, reconnection and the heartbeat reply.

\* C12 (as claimed): every trade_update stored in lastMessage reaches the
\* alert ingestor: while one waits for the effect to run, no later message
\* takes its place. Checked under SpecFeed.
C12_EveryMessageDelivered ==
  [][(effectPending /\ lastMessage.type = "trade_update")
       => lastMessage' = lastMessage]_vars

\* C13: there is no retry limit. Whenever the socket is CLOSED and the channel
\* is not disposed a reconnect timeout is pending, a new connection attempt
\* follows, and the channel is OPEN again once the server accepts one (or it
\* has been disposed meanwhile). Checked under SpecChannelFair.
C13_AlwaysRetries ==
  /\ []((readyState = "CLOSED" /\ ~disposed) => reconnectTimer)
  /\ (readyState = "CLOSED" /\ ~disposed) ~> (readyState = "CONNECTING" \/ disposed)
  /\ (readyState = "CLOSED" /\ ~disposed) ~> (readyState = "OPEN" \/ disposed)

\* Witness of C13: the channel is OPEN again after seven failed attempts in a row.
C13_Witness ==
  readyState = "OPEN" /\ priorFailures = 7 /\ ~disposed

\* C14: lastMessage never holds a pong, and a pong frame leaves lastMessage,
\* the request for an effect run and the alert list as they were. Checked
\* under SpecFeed.
C14_PongNeverForwarded ==
  /\ [](lastMessage.type # "pong")
  /\ [][(\E f \in Frames : JSONParse(f).type = "pong" /\ OnMessage(f))
          => UNCHANGED <<lastMessage, effectPending, alerts>>]_vars

\* Witness of C14: a pong arrived after a trade_update had been ingested; the
\* message and its alert are still there.
C14_Witness ==
  /\ pongLast
  /\ lastMessage.type = "trade_update"
  /\ ~effectPending
  /\ Len(alerts) = 1

----------------------------------------------------------------------------
\* Claims about the rankings (checked under SpecBlend).

\* The position of strategy n in a ranking (0 when it is not ranked).
PosIn(rs, n) ==
  IF \E i \in 1..Len(rs) : rs[i].strategy_name = n
  THEN CHOOSE i \in 1..Len(rs) : rs[i].strategy_name = n
  ELSE 0

\* C15: the blended score of every ranked strategy is its short-horizon score
\* when its long-horizon summary is absent, null or insufficient, and
\* 0.55 * ST + 0.45 * LT when it has a long-horizon score (60 and 20 give 42);
\* the same holds of every row the dashboard holds and lists.
C15_BlendedScore ==
  /\ \A n \in DOMAIN summaries :
       summaries[n].ranked =>
         LET r == srvRankings[PosIn(srvRankings, n)]
             sum == summaries[n] IN
           /\ PosIn(srvRankings, n) # 0
           /\ sum.lt.kind \in {"absent", "null", "insufficient"}
                => (r.composite_score = 100 * sum.st /\ r.lt_composite_score = {})
           /\ sum.lt.kind = "score"
                => r.composite_score = 55 * sum.st + 45 * sum.lt.score
           /\ (sum.st = 60 /\ sum.lt = LtScore(20)) => r.composite_score = 4200
  /\ \A i \in 1..Len(rankings) :
       LET r == rankings[i] IN
         /\ r.lt_composite_score = {} => r.composite_score = 100 * r.st_composite_score
         /\ \A x \in r.lt_composite_score :
              r.composite_score = 55 * r.st_composite_score + 45 * x
         /\ Listed(rankings)[i].blended = r.composite_score

\* Witness of C15: the dashboard holds a row blended from 60 and 20 and a row
\* of a strategy whose long-horizon summary is flagged insufficient.
C15_Witness ==
  /\ Len(rankings) = 2
  /\ rankings[1].st_composite_score = 60
  /\ rankings[1].lt_composite_score = {20}
  /\ rankings[1].composite_score = 4200
  /\ rankings[2].st_composite_score = 20
  /\ rankings[2].lt_composite_score = {}
  /\ rankings[2].composite_score = 2000
  /\ summaries[rankings[2].strategy_name].lt.kind = "insufficient"

\* C16: blending again on unchanged summaries changes nothing: the ranking
\* the server holds is what the blender returns for it, score by score and
\* in the same order, and a fetch of an unchanged ranking leaves the
\* dashboard's list as it was.
C16_BlendIdempotent ==
  /\ [](Blend(summaries, srvRankings) = srvRankings)
  /\ [][BlendAgain => srvRankings' = srvRankings]_vars
  /\ [][(rankings = srvRankings /\ srvRankings' = srvRankings) => rankings' = rankings]_vars

\* Witness of C16: two strategies of equal blended score are ranked against
\* the order of Strategies, and the dashboard holds that ranking.
C16_Witness ==
  /\ Len(srvRankings) = 2
  /\ srvRankings[1].strategy_name = "vwap_reversion"
  /\ srvRankings[1].composite_score = srvRankings[2].composite_score
  /\ rankings = srvRankings

\* A ranking in descending order of blended score.
SortedDesc(rs) ==
  \A i \in 1..Len(rs) - 1 : rs[i].composite_score >= rs[i + 1].composite_score

----------------------------------------------------------------------------
\* Claims about the trading mode (checked under SpecControls).

\* C18: a request for live mode is sent only when the prompt returned exactly
\* the phrase, and it carries the phrase; any other text, or a cancelled
\* prompt, sends no mode request, starts no refresh and changes nothing the
\* component holds; from live to paper the request is sent without a prompt.
C18_LiveNeedsPhrase ==
  /\ [](modeReq.mode = "live" =>
          (modeReq.confirmation = "I understand the risks of live trading"
           /\ lastTyped = "I understand the risks of live trading"))
  /\ [][\A typed \in PromptResults :
          (ModeToggle(typed) /\ statusMode = "paper"
             /\ typed # "I understand the risks of live trading")
          => UNCHANGED <<modeReq, inflight, snap, statusMode, srvMode>>]_vars
  /\ [][\A typed \in PromptResults :
          (ModeToggle(typed) /\ statusMode = "live")
          => (modeReq' = [mode |-> "paper", confirmation |-> Undefined]
              /\ lastTyped' = lastTyped)]_vars

\* Witness of C18: the phrase in lower case was refused while the dashboard
\* showed paper mode: no request is awaited, no status fetch is in flight and
\* the server is still in paper mode.
C18_Witness ==
  /\ lastTyped = "i understand the risks of live trading"
  /\ statusMode = "paper"
  /\ srvMode = "paper"
  /\ inflight["status"] = 0
  /\ modeReq = NoRequest

----------------------------------------------------------------------------
\* Claims about the fast poll (checked under SpecLeaderboard).

\* A fetch of the rankings resumes with a response whose lt_progress says the
\* long-horizon run is not in progress.
ObservesNotRunning ==
  /\ srvLt # "running"
  /\ \E v \in Versions : FetchOk("rankings", v, TRUE)

----------------------------------------------------------------------------
\* More claims about the poll loops (checked under SpecPoll).

\* The snapshot cells loop l writes.
CellsOf(l) ==
  CASE l = "status"   -> {"status"}
    [] l = "position" -> {"position"}
    [] l = "account"  -> {"account", "risk"}
    [] l = "trades"   -> {"trades", "total"}
    [] l = "rankings" -> {"rankings", "progress", "ltProgress"}

\* C20: a failed fetch of loop l leaves every other loop as it was: its
\* snapshot cells, its error cell (only useTrades has one), its fetches in
\* flight and the leaderboard's and the controls' own state and timers; and
\* an interval that could start a fetch before the failure still can.
C20_FailureIsolated ==
  [][\A l \in Loops :
       FetchFail(l) =>
         /\ \A k \in Loops \ {l} :
              /\ inflight'[k] = inflight[k]
              /\ \A c \in CellsOf(k) : snap'[c] = snap[c]
              /\ LastError(k)' = LastError(k)
         /\ HasRoom => HasRoom'
         /\ UNCHANGED <<rankTimers, rankings, ltStatus, statusMode>>]_vars

\* Witness of C20: the only fetch of the trades so far failed; the status
\* loop holds response 2, the account loop response 1, and a fetch of the
\* rankings is in flight.
C20_Witness ==
  /\ tradesError # "null"
  /\ snap.trades = 0
  /\ snap.status = 2
  /\ snap.account = 1
  /\ inflight["rankings"] = 1
  /\ inflight["trades"] = 0

----------------------------------------------------------------------------
\* Claims about the life of the poll loops (checked under SpecLifecycle).

\* C21: every loop fetches once when it is mounted and again on every tick of
\* its interval, whatever became of the earlier fetches, until it is disposed;
\* once a loop is disposed no further fetch of its resource is started.
\* (The formula is the last part: no step taken after the disposal of a loop
\* adds a fetch in flight to it.)
C21_LoopUntilDisposed ==
  [][\A l \in Loops : ~mounted[l] => inflight'[l] <= inflight[l]]_vars

----------------------------------------------------------------------------
\* Claims about the display of the alerts (checked under SpecFeed).

\* C22: a listed alert is shown as positive exactly when its action is OPEN,
\* or its action is CLOSE and its P&L is present and not negative; every
\* other alert (a CLOSE without P&L or with a negative one) is shown as
\* negative.
C22_PositiveIffOpenOrProfit ==
  \A i \in 1..Len(alerts) :
    LET a == alerts[i]
        positive == \/ a.action = "OPEN"
                    \/ a.action = "CLOSE" /\ \E x \in a.pnl : x >= 0
    IN /\ a.action \in {"OPEN", "CLOSE"}
       /\ positive => BorderColor(a) = "border-l-profit"
       /\ ~positive => BorderColor(a) = "border-l-loss"

\* The list holds a CLOSE whose payload had no pnl, and it is shown as negative.
C22_Witness ==
  \E i \in 1..Len(alerts) :
    /\ alerts[i].action = "CLOSE"
    /\ alerts[i].pnl = {}
    /\ BorderColor(alerts[i]) = "border-l-loss"

----------------------------------------------------------------------------
\* Claims about the state the UI reads (checked under SpecFacade).

\* C23: every field the UI reads has one writer. connected and lastMessage
\* change only in a step of the channel; alerts only in a step of the feed
\* (its effect or its Clear button); the cells of a loop (and the error cell
\* of useTrades) only when a fetch of that very loop settles; the ranking
\* list and the long-horizon status only when a fetch of the rankings succeeds.
\* The server's blender writes none of them.
C23_SingleWriter ==
  [][/\ (connected' # connected \/ lastMessage' # lastMessage) => ChannelNext
     /\ alerts' # alerts => (AlertsEffect \/ ClearAlerts)
     /\ \A l \in Loops :
          (\E c \in CellsOf(l) : snap'[c] # snap[c])
            => \E v \in Versions, hasLt \in BOOLEAN : FetchOk(l, v, hasLt)
     /\ tradesError' # tradesError
          => \/ \E v \in Versions : FetchOk("trades", v, FALSE)
             \/ FetchFail("trades")
     /\ (rankings' # rankings \/ ltStatus' # ltStatus)
          => \E v \in Versions, hasLt \in BOOLEAN : FetchOk("rankings", v, hasLt)
    ]_vars

\* Witness of C23: every writer has written: the channel is connected and has
\* stored a message, the feed holds an alert, the status, position, account
\* and rankings loops hold response 1, the fetch of the trades failed, and
\* the ranking list has the row the blender made.
C23_Witness ==
  /\ connected
  /\ lastMessage # NullState
  /\ Len(alerts) = 1
  /\ snap.status = 1 /\ snap.position = 1 /\ snap.account = 1 /\ snap.rankings = 1
  /\ tradesError # "null"
  /\ Len(rankings) = 1

----------------------------------------------------------------------------
\* Claims about the periods of the loops (checked under SpecLifecycle).

\* C24: each loop has an interval of its own: the status every 10 s, the
\* position every 10 s, account and risk every 15 s, the trades every 30 s
\* and the rankings every 30 s (the 5 s fast poll set aside).
C24_DocumentedIntervals ==
  \A l \in Loops :
    mounted[l] =>
      LiveIntervals(l) \ {FAST_POLL_MS} =
        { CASE l = "status"   -> 10000
            [] l = "position" -> 10000
            [] l = "account"  -> 15000
            [] l = "trades"   -> 30000
            [] l = "rankings" -> 30000 }

----------------------------------------------------------------------------
\* More claims about the channel (checked under SpecChannel).

\* C25 as stated: the channel starts in Connecting and, until it is disposed,
\* its state changes only along Closed -> Connecting -> Open -> Closed.
C25_CycleOnly ==
  /\ readyState = "CONNECTING"
  /\ [][(~disposed' /\ readyState' # readyState) =>
          <<readyState, readyState'>> \in
            { <<"CLOSED", "CONNECTING">>, <<"CONNECTING", "OPEN">>,
              <<"OPEN", "CLOSED">> }]_vars

\* C25, amended: the channel starts in Connecting and, until it is disposed,
\* its state changes only along Closed -> Connecting -> Open -> Closed or,
\* for an attempt that fails, straight from Connecting to Closed. Open is
\* entered only from Connecting; Connecting is re-entered only from Closed, by
\* the reconnect timeout firing; and a channel that is not disposed never
\* rests in Closed without a reconnect timeout pending.
C25_StateMachine ==
  /\ readyState = "CONNECTING"
  /\ [][(~disposed' /\ readyState' # readyState) =>
          <<readyState, readyState'>> \in
            { <<"CLOSED", "CONNECTING">>, <<"CONNECTING", "OPEN">>,
              <<"OPEN", "CLOSED">>, <<"CONNECTING", "CLOSED">> }]_vars
  /\ [][(readyState' = "OPEN" /\ readyState # "OPEN") =>
          readyState = "CONNECTING"]_vars
  /\ [][(readyState' = "CONNECTING" /\ readyState # "CONNECTING") =>
          (readyState = "CLOSED" /\ reconnectTimer /\ ~reconnectTimer')]_vars
  /\ [](~disposed /\ readyState = "CLOSED" => reconnectTimer)

\* Witness of C25: the channel is open after an attempt that failed: it went
\* from Connecting to Closed, back to Connecting by the timeout, and to Open.
C25_Witness ==
  /\ ~disposed
  /\ readyState = "OPEN"
  /\ priorFailures >= 1

\* C26: an error is a forced close: the step in which a connection errs
\* leaves the socket Closed, connected false, the heartbeat cancelled and a
\* reconnect timeout pending; it is never left half-open.
C26_ErrorForcesClose ==
  [][OnError =>
       /\ readyState' = "CLOSED"
       /\ ~connected'
       /\ ~ping'
       /\ reconnectTimer'
       /\ reconnectDelay' = Backoff(reconnectAttempt)]_vars

\* Witness of C26: a connection that had been open and had sent a ping ended
\* with an error: it is closed, not connected, and its retry is pending.
C26_Witness ==
  /\ lastEnd = "error"
  /\ pingSent
  /\ readyState = "CLOSED"
  /\ ~connected
  /\ reconnectTimer

\* C27: a ping is sent only on an open connection; the heartbeat interval is
\* started by each open event, when no other is live, and is cancelled by the
\* close of that connection; so it is live only between the open and the
\* close event of one socket, and never more than one is.
C27_HeartbeatOnlyWhileOpen ==
  /\ [][(pingSent' /\ ~pingSent) => (HeartbeatTick /\ readyState = "OPEN")]_vars
  /\ [][OnOpen => (~ping /\ ping')]_vars
  /\ [][(OnClose \/ OnError) => ~ping']_vars
  /\ [][(ping' /\ ~ping) => OnOpen]_vars
  /\ [](ping => readyState \in {"OPEN", "CLOSING"})

\* Witness of C27: an earlier connection has ended (its interval was
\* cancelled) and the connection opened after it has sent a ping.
C27_Witness ==
  /\ lastEnd # "none"
  /\ readyState = "OPEN"
  /\ ping
  /\ pingSent

----------------------------------------------------------------------------
\* Claims about what leaves the feed (checked under SpecFeedUI).

\* A step that changes the list by putting one alert in front: the alerts
\* held before keep their place behind it, unaltered, and only the oldest is
\* dropped, and only from a list that is full.
PrependsOne ==
  /\ Len(alerts') = Min(Len(alerts) + 1, MAX_ALERTS)
  /\ \A i \in 2..Len(alerts') : alerts'[i] = alerts[i - 1]

----------------------------------------------------------------------------
\* Claims about frames of the wrong shape (checked under SpecChannel).

\* type: 'price_update' | 'trade_update' | 'status_update' | 'error' | 'pong'
MessageTypes == {"price_update", "trade_update", "status_update", "error", "pong"}

\* The frames that are JSON but not a WSMessage: not an object, or an object
\* whose type is missing or is not one of MessageTypes.
MisshapenFrames ==
  { f \in Frames :
      /\ JSONParse(f) # SyntaxError
      /\ \/ JSONParse(f).kind # "object"
         \/ JSONParse(f).type \notin MessageTypes }

\* C29: a frame that is JSON but not a well-formed message is dropped without
\* a trace: lastMessage keeps its value and nothing is thrown.
C29_MisshapenFrameDropped ==
  [][\A f \in MisshapenFrames :
       OnMessage(f) => (lastMessage' = lastMessage /\ ~thrown')]_vars

----------------------------------------------------------------------------
\* Claims about when a loop fetches (checked under SpecLifecycle).

\* C30: after its mount fetch a loop starts a fetch only on a tick of its
\* interval, so two fetch starts of a loop are never closer than its period;
\* in particular a fetch that failed is not tried again before the next tick.
C30_StartsOnlyOnTicks ==
  [][\A l \in Loops : inflight'[l] > inflight[l] => Tick(l)]_vars

----------------------------------------------------------------------------
\* Claims about what a response overwrites (checked under SpecPoll).

\* C31: a successful fetch overwrites the whole snapshot of its loop: after
\* it every cell of the loop (for the leaderboard: rankings, progress and
\* ltProgress) holds the data of that one response, so the cells of a loop
\* never hold data of different responses.
C31_WholesaleOverwrite ==
  [][\A l \in Loops, v \in Versions, hasLt \in BOOLEAN :
       (mounted[l] /\ FetchOk(l, v, hasLt)) =>
         \A c \in CellsOf(l) : snap'[c] = v]_vars

----------------------------------------------------------------------------
\* Claims about timers after disposal (checked under SpecLifecycle).

\* C32: a disposed loop has no live timer: its intervals (the 5 s one of the
\* leaderboard included) are cleared, and so are the timeouts the backtest
\* triggers armed (the delayed refresh and the reset of the flag).
C32_NoTimerAfterDisposal ==
  \A l \in Loops :
    ~mounted[l] =>
      /\ LiveIntervals(l) = {}
      /\ l = "rankings" => (~stRefresh /\ ~ltRefresh /\ ~flagTimeout)

----------------------------------------------------------------------------
\* Claims about remounts of the feed (checked under SpecFeedTabs).

\* C33: one pushed message makes at most one alert: running the ingest step
\* again while lastMessage holds the same trade_update (after a remount of the
\* feed) adds no second alert for it.
C33_ProcessedOnce == ingested <= 1

----------------------------------------------------------------------------
\* Claims about the number of connections and timers (checked under
\* SpecChannel).

\* C34: one connection and one reconnect timer at most, and never both: no
\* reconnect timer is pending while the connection is Connecting or Open, a
\* connection is made only when the one before is neither, and a reconnect
\* timer is armed only when none is pending.
C34_OneConnectionOneTimer ==
  /\ [](reconnectTimer => readyState \notin {"CONNECTING", "OPEN"})
  /\ [][Reconnect => readyState \notin {"CONNECTING", "OPEN"}]_vars
  /\ [][(OnClose \/ OnError) => ~reconnectTimer]_vars

\* Witness of C34: the connection made by the second reconnect timer in a row
\* is being established, and no timer is pending.
C34_Witness ==
  /\ readyState = "CONNECTING"
  /\ ~reconnectTimer
  /\ reconnectAttempt = 2
  /\ ~disposed

----------------------------------------------------------------------------
\* Claims about the order of the retained alerts (checked under SpecFeed).

\* C35: the identities of the retained alerts strictly decrease from the head
\* of the list to its tail: the list is ordered newest first, and (an order
\* being strict) no two retained alerts share an identity.
C35_StrictlyNewestFirst ==
  \A i \in 1..(Len(alerts) - 1) : alerts[i].id > alerts[i + 1].id

\* Witness of C35: three alerts are retained and the last message, arrived in
\* the instant of the newest one, was discarded.
C35_Witness ==
  /\ Len(alerts) = 3
  /\ lastOutcome = "duplicate"
  /\ alerts[1].id = now

----------------------------------------------------------------------------
\* Claims about overlapping fetches of one resource (checked under SpecOrder).

\* C36: the response of a fetch never replaces the value written by a fetch
\* started after it, and once no fetch of a loop is in flight its cells hold
\* the response of the last started of the fetches that succeeded.
C36_LaterStartedWins ==
  /\ [][\A l \in OrderLoops : \A c \in CellsOf(l) : snap'[c] >= snap[c]]_vars
  /\ [](\A l \in OrderLoops :
          (\A n \in Versions : <<l, n>> \notin reqs) =>
             \A c \in CellsOf(l) : snap[c] = okMax[l])

----------------------------------------------------------------------------
\* Claims about the account and risk cells (checked under SpecPoll).

\* C37: the account and the risk metrics are only updated together: a poll
\* cycle of which a request failed changes neither, so the two cells hold
\* their initial value or the answers of one poll cycle.
C37_AccountAndRiskTogether ==
  /\ [](snap.account = snap.risk)
  /\ [][FetchFail("account") =>
          (snap'.account = snap.account /\ snap'.risk = snap.risk)]_vars

\* Witness of C37: no account fetch is in flight, and the two cells hold the
\* two answers of one poll cycle (response 2).
C37_Witness ==
  /\ snap.account = 2
  /\ snap.risk = 2
  /\ inflight["account"] = 0
  /\ mounted["account"]

====
